---- MODULE Spec2Model ----
(***************************************************************************)
(* Model of _scripts/notion-sync.js: the Notion database -> Jekyll         *)
(* markdown exporter.  Four specifications share the module:               *)
(*   Spec       the run of the async main function (environment checks,    *)
(*              database query, per-page loop, top-level catch);           *)
(*   SpecShift  shiftHeadings walking a block tree in place;               *)
(*   SpecFront  the front-matter field extraction and header template;     *)
(*   SpecImage  the custom transformer of image blocks.                    *)
(***************************************************************************)
EXTENDS Naturals, Sequences, FiniteSets, TLC

VARIABLES
    \* ---- the run (Spec)
    env,          \* process.env: DATABASE_ID and NOTION_TOKEN
    pc,           \* where the async main function is
    remoteFilters,\* whether the remote applies the filter sent with the query
    queryArgs,    \* the arguments of the databases.query call, <<>> before it
    response,     \* response.results
    i,            \* index of the page the loop is at
    dir,          \* the _posts directory: <<>> when missing, else <<files>>
    dir0,         \* history: the directory as the run found it
    exitCode,     \* process.exitCode: <<>> while unset
    remoteCalls,  \* number of remote calls issued
    log,          \* history: the steps taken, in order
    failure,      \* history: <<>> or <<[stage, k]>> of the failure
    today,        \* moment().format("YYYY-MM-DD")
    \* ---- shiftHeadings (SpecShift)
    mdBlocks,     \* the block tree, mutated in place
    input,        \* history: the tree as it was handed in
    stack,        \* activation records of shiftHeadings: [list, idx]
    visitLog,     \* history: paths of the blocks visited by this application
    applied,      \* number of complete applications
    once,         \* history: the tree after the first application
    \* ---- front matter (SpecFront)
    page,         \* the page whose fields are resolved
    fm,           \* <<>> or <<the resolved fields, header and filename>>
    \* ---- image transformer (SpecImage)
    block,        \* the image block handed to the transformer
    imgOut        \* <<>> or <<the outcome of the transformer>>

runVars   == <<env, pc, remoteFilters, queryArgs, response, i, dir, dir0, exitCode,
               remoteCalls, log, failure, today>>
shiftVars == <<mdBlocks, input, stack, visitLog, applied, once>>
frontVars == <<page, fm>>
imageVars == <<block, imgOut>>
vars      == <<runVars, shiftVars, frontVars, imageVars>>

\* ------------------------------------------------------------------ bounds
MaxRecords == 3
MaxTags    == 2
MaxHashes  == 4
MaxDepth   == 2
MaxUrlLen  == 2

\* ----------------------------------------------------------------- helpers
Range(s) == {s[n] : n \in DOMAIN s}

RECURSIVE Concat(_)
\* a sequence of strings as one string
Concat(s) == IF s = <<>> THEN "" ELSE Head(s) \o Concat(Tail(s))

RECURSIVE Join(_, _)
\* Array.prototype.join
Join(s, sep) ==
    IF s = <<>> THEN ""
    ELSE IF Len(s) = 1 THEN s[1]
    ELSE s[1] \o sep \o Join(Tail(s), sep)

\* An optional value: <<>> is undefined, <<v>> is the value v.
Undefined == <<>>
Some(v)   == <<v>>

\* -------------------------------------------------- front-matter extraction
\* page.properties?.title?.title?.[0]?.plain_text
FirstTitleText(prop) ==
    IF prop.kind = "absent" \/ prop.title = <<>> THEN Undefined
    ELSE Some(prop.title[1])

\* page.properties?.<name>?.rich_text?.[0]?.plain_text
FirstPlainText(prop) ==
    IF prop.kind = "absent" \/ prop.rich_text = <<>> THEN Undefined
    ELSE Some(prop.rich_text[1])

\* a || d with ?? in place of ||: only undefined takes the default
OrDefaultNullish(m, d) == IF m = Undefined THEN d ELSE m[1]

\* a || d on an optional string: undefined and "" are both falsy
OrDefault(m, d) == IF m = Undefined \/ m[1] = "" THEN d ELSE m[1]

\* page.id.replace(/-/g, "")
StripDashes(id) == Concat(SelectSeq(id, LAMBDA c : c # "-"))

Title(p) == OrDefault(FirstTitleText(p.properties.title), "Untitled")

PageId(p) == OrDefault(FirstPlainText(p.properties.page_id), StripDashes(p.id))

Description(p) == OrDefault(FirstPlainText(p.properties.description), "")

ThumbnailUrl(p) == FirstPlainText(p.properties.thumbnail_url)

\* the lines of imageFrontmatter; a falsy thumbnailUrl gives none
ImageFrontmatter(p) ==
    IF ThumbnailUrl(p) = Undefined \/ ThumbnailUrl(p)[1] = "" THEN <<>>
    ELSE << "image:",
            "  path: \"" \o ThumbnailUrl(p)[1] \o "\"",
            "  alt: \"preview image\"" >>

\* page.properties?.category?.select?.name || "blog"
Category(p) ==
    OrDefault(IF p.properties.category.kind = "absent" THEN Undefined
              ELSE p.properties.category.select, "blog")

\* (page.properties?.tags?.multi_select || []).map((t) => t.name)
Tags(p) ==
    IF p.properties.tags.kind = "absent" THEN <<>>
    ELSE p.properties.tags.multi_select

\* page.properties?.date?.date?.start || moment().format("YYYY-MM-DD")
Date(p, now) ==
    OrDefault(IF p.properties.date.kind = "absent" THEN Undefined
              ELSE p.properties.date.start, now)

\* the frontmatter template, line by line
FrontmatterLines(p, now) ==
    << "---",
       "title: \"" \o Title(p) \o "\"",
       "date: " \o Date(p, now),
       "categories: [\"" \o Category(p) \o "\"]",
       "tags: [\"" \o Join(Tags(p), "\", \"") \o "\"]",
       "description: \"" \o Description(p) \o "\"",
       "permalink: /posts/" \o PageId(p),
       "math: true" >>
    \o ImageFrontmatter(p)
    \o << "---", "", "" >>

Frontmatter(p, now) == Join(FrontmatterLines(p, now), "\n")

\* a filename without the date
FilenameSlugOnly(p, now) == PageId(p) \o ".md"

\* `${date}-${pageId}.md`
Filename(p, now) == Date(p, now) \o "-" \o PageId(p) \o ".md"

\* ------------------------------------------------------------- page values
AbsentTitle == [kind |-> "absent", title |-> <<>>]
TitleProp(runs) == [kind |-> "title", title |-> runs]
AbsentProp == [kind |-> "absent", rich_text |-> <<>>]
RichText(runs) == [kind |-> "rich_text", rich_text |-> runs]
AbsentSelect == [kind |-> "absent", select |-> Undefined]
Select(m) == [kind |-> "select", select |-> m]
AbsentTags == [kind |-> "absent", multi_select |-> <<>>]
MultiSelect(names) == [kind |-> "multi_select", multi_select |-> names]
AbsentDate == [kind |-> "absent", start |-> Undefined]
DateProp(m) == [kind |-> "date", start |-> m]

\* the identifier of the k-th page of a query result, as characters
IdOf(k) == << "p", ToString(k), "-", "x" >>

Dates == {"2024-01-01", "2024-01-02"}

\* the pages the remote may hold at position k of a result
PagesAt(k) ==
    { [ id |-> IdOf(k),
        properties |->
          [ title         |-> AbsentTitle,
            page_id       |-> slug,
            description   |-> AbsentProp,
            thumbnail_url |-> AbsentProp,
            category      |-> AbsentSelect,
            tags          |-> AbsentTags,
            date          |-> DateProp(Some(d)),
            published     |-> pub ] ] :
        slug \in {AbsentProp, RichText(<<"s1">>)}, d \in Dates, pub \in BOOLEAN }

RECURSIVE ResultsOfLen(_)
\* the query results of exactly n pages
ResultsOfLen(n) ==
    IF n = 0 THEN {<<>>}
    ELSE {Append(r, p) : r \in ResultsOfLen(n - 1), p \in PagesAt(n)}

\* the query results of at most MaxRecords pages
Results == UNION {ResultsOfLen(n) : n \in 0..MaxRecords}

Published(r) == \A k \in DOMAIN r : r[k].properties.published

\* ------------------------------------------------------------------ the run
Strings == {Undefined, Some(""), Some("set")}

\* an environment check that forgets NOTION_TOKEN
EnvOkNoTokenCheck(e) == ~(e.DATABASE_ID = Undefined \/ e.DATABASE_ID[1] = "")

\* neither `!databaseId` nor `!process.env.NOTION_TOKEN` throws
EnvOk(e) ==
    /\ ~(e.DATABASE_ID = Undefined \/ e.DATABASE_ID[1] = "")
    /\ ~(e.NOTION_TOKEN = Undefined \/ e.NOTION_TOKEN[1] = "")

\* the arguments of notion.databases.query
QueryArguments(e) ==
    [ database_id |-> e.DATABASE_ID[1],
      filter |-> [property |-> "published", checkbox |-> [equals |-> TRUE]],
      sorts  |-> << [property |-> "date", direction |-> "ascending"] >> ]

\* a loop that skips the pages whose published flag is off
LoopRecordsPublishedOnly(results) ==
    SelectSeq(results, LAMBDA p : p.properties.published)

\* `for (const page of response.results)`: every page of the result
LoopRecords(results) == results

\* a loop that steps over a page
NextIndexSkips(k) == k + 2

\* the for-of loop moves to the next page
NextIndex(k) == k + 1

\* n2m.toMarkdownString(mdBlocks).parent of a page (its content is not modelled)
MdString(p) == "<markdown of " \o Concat(p.id) \o ">"

\* what writeFileSync is given
FileContent(p, now) == Frontmatter(p, now) \o MdString(p)

Entry(step, k, file) == [step |-> step, k |-> k, file |-> file]

\* a catch handler that reports the error and leaves process.exitCode alone
CatchKeepsExitCode(stage, k) ==
    /\ pc' = "exited"
    /\ failure' = Some([stage |-> stage, k |-> k])
    /\ exitCode' = exitCode

\* .catch((err) => { console.error(...); process.exitCode = 1; })
Catch(stage, k) ==
    /\ pc' = "exited"
    /\ failure' = Some([stage |-> stage, k |-> k])
    /\ exitCode' = Some(1)

\* the loop reaches page k with the log as given: either the result is
\* exhausted and main returns, or the body fetch of page k is issued
EnterIteration(k, sofar) ==
    IF k > Len(LoopRecords(response'))
    THEN /\ pc' = "exited"
         /\ log' = sofar
         /\ UNCHANGED <<i, remoteCalls, exitCode, failure>>
    ELSE /\ pc' = "awaitFetch"
         /\ i' = k
         /\ remoteCalls' = remoteCalls + 1
         /\ log' = Append(sofar, Entry("fetch", k, ""))
         /\ UNCHANGED <<exitCode, failure>>

RunInit ==
    /\ env \in [DATABASE_ID : Strings, NOTION_TOKEN : Strings]
    /\ pc = "start"
    /\ remoteFilters \in BOOLEAN
    /\ queryArgs = Undefined
    /\ response = <<>>
    /\ i = 0
    /\ dir \in { Undefined, Some(<<>>),
                 Some("2024-01-01-s1.md" :> "old") }
    /\ dir0 = dir
    /\ exitCode = Undefined
    /\ remoteCalls = 0
    /\ log = <<>>
    /\ failure = Undefined
    /\ today = "2024-01-03"

\* a required environment variable is missing: main throws before the query
StartMissingEnv ==
    /\ pc = "start"
    /\ ~EnvOk(env)
    /\ Catch("config", 0)
    /\ UNCHANGED <<env, remoteFilters, queryArgs, response, i, dir, dir0,
                   remoteCalls, log, today>>

\* the environment is complete: main issues the database query and awaits it
Start ==
    /\ pc = "start"
    /\ EnvOk(env)
    /\ queryArgs' = Some(QueryArguments(env))
    /\ remoteCalls' = remoteCalls + 1
    /\ log' = Append(log, Entry("query", 0, ""))
    /\ pc' = "awaitQuery"
    /\ UNCHANGED <<env, remoteFilters, response, i, dir, dir0, exitCode,
                   failure, today>>

\* the query call rejects
QueryRejected ==
    /\ pc = "awaitQuery"
    /\ Catch("query", 0)
    /\ UNCHANGED <<env, remoteFilters, queryArgs, response, i, dir, dir0,
                   remoteCalls, log, today>>

\* the answers the remote may give
Answers == IF remoteFilters THEN {r \in Results : Published(r)} ELSE Results

\* the query resolves and mkdirSync throws
QueryResolvedMkdirFails ==
    /\ pc = "awaitQuery"
    /\ \E r \in Answers : response' = r
    /\ Catch("mkdir", 0)
    /\ UNCHANGED <<env, remoteFilters, queryArgs, i, dir, dir0, remoteCalls,
                   log, today>>

\* the query resolves, the folder is made, the loop starts
QueryResolved ==
    /\ pc = "awaitQuery"
    /\ \E r \in Answers : response' = r
    /\ dir' = IF dir = Undefined THEN Some(<<>>) ELSE dir
    /\ EnterIteration(1, Append(log, Entry("mkdir", 0, "")))
    /\ UNCHANGED <<env, remoteFilters, queryArgs, dir0, today>>

\* n2m.pageToMarkdown rejects (the remote call, or a transformer, fails)
FetchRejected ==
    /\ pc = "awaitFetch"
    /\ Catch("fetch", i)
    /\ UNCHANGED <<env, remoteFilters, queryArgs, response, i, dir, dir0,
                   remoteCalls, log, today>>

\* the body arrives and shiftHeadings or toMarkdownString throws
FetchResolvedConvertFails ==
    /\ pc = "awaitFetch"
    /\ log' = Append(log, Entry("fetched", i, ""))
    /\ Catch("convert", i)
    /\ UNCHANGED <<env, remoteFilters, queryArgs, response, i, dir, dir0,
                   remoteCalls, today>>

\* the body arrives, is converted, and writeFileSync throws
FetchResolvedWriteFails ==
    /\ pc = "awaitFetch"
    /\ log' = log \o << Entry("fetched", i, ""), Entry("convert", i, "") >>
    /\ Catch("write", i)
    /\ UNCHANGED <<env, remoteFilters, queryArgs, response, i, dir, dir0,
                   remoteCalls, today>>

\* the body arrives, is converted, the file is written, the loop goes on
FetchResolved ==
    /\ pc = "awaitFetch"
    /\ LET p    == LoopRecords(response)[i]
           name == Filename(p, today)
       IN /\ dir' = Some((name :> FileContent(p, today)) @@ dir[1])
          /\ response' = response
          /\ EnterIteration(NextIndex(i),
                 log \o << Entry("fetched", i, ""), Entry("convert", i, ""),
                           Entry("write", i, name) >>)
    /\ UNCHANGED <<env, remoteFilters, queryArgs, dir0, today>>

RunNext ==
    \/ StartMissingEnv
    \/ Start
    \/ QueryRejected
    \/ QueryResolvedMkdirFails
    \/ QueryResolved
    \/ FetchRejected
    \/ FetchResolvedConvertFails
    \/ FetchResolvedWriteFails
    \/ FetchResolved

\* the other components at rest
ShiftIdle ==
    /\ mdBlocks = <<>> /\ input = <<>> /\ stack = <<>>
    /\ visitLog = <<>> /\ applied = 0 /\ once = <<>>
FrontIdle == page = <<>> /\ fm = <<>>
ImageIdle == block = <<>> /\ imgOut = <<>>
RunIdle ==
    /\ env = <<>> /\ pc = "idle" /\ remoteFilters = TRUE /\ queryArgs = <<>>
    /\ response = <<>> /\ i = 0 /\ dir = <<>> /\ dir0 = <<>>
    /\ exitCode = <<>> /\ remoteCalls = 0 /\ log = <<>> /\ failure = <<>>
    /\ today = "2024-01-03"

Init == RunInit /\ ShiftIdle /\ FrontIdle /\ ImageIdle
Next == RunNext /\ UNCHANGED <<shiftVars, frontVars, imageVars>>
Spec == Init /\ [][Next]_vars

\* process exit status: process.exitCode, 0 while it is unset
ExitStatus == IF exitCode = Undefined THEN 0 ELSE exitCode[1]

\* ------------------------------------------------------------ shiftHeadings
\* A block of the notion-to-md tree: [type, parent, children], parent being
\* the block's own markdown text, here a sequence of characters.
Block(type, parent, children) ==
    [type |-> type, parent |-> parent, children |-> children]

RECURSIVE Hashes(_)
\* n heading markers
Hashes(n) == IF n = 0 THEN <<>> ELSE <<"#">> \o Hashes(n - 1)

StartsWith(s, pre) == Len(s) >= Len(pre) /\ SubSeq(s, 1, Len(pre)) = pre

\* String.prototype.replace with a pattern anchored at the start: the first
\* match, if there is one, is replaced
ReplacePrefix(s, pre, rep) ==
    IF StartsWith(s, pre) THEN rep \o SubSeq(s, Len(pre) + 1, Len(s)) ELSE s

\* the patterns without their trailing space: /^#/, /^##/, /^###/
ShiftFragmentNoSpace(type, parent) ==
    IF type = "heading_1" THEN ReplacePrefix(parent, Hashes(1), Hashes(2))
    ELSE IF type = "heading_2" THEN ReplacePrefix(parent, Hashes(2), Hashes(3))
    ELSE IF type = "heading_3" THEN ReplacePrefix(parent, Hashes(3), Hashes(4))
    ELSE parent

\* every heading demoted by the marker it carries, whatever its type
ShiftFragmentAnyLevel(type, parent) ==
    IF type \in {"heading_1", "heading_2", "heading_3"}
    THEN IF StartsWith(parent, Hashes(1) \o <<" ">>)
            \/ StartsWith(parent, Hashes(2) \o <<" ">>)
            \/ StartsWith(parent, Hashes(3) \o <<" ">>)
         THEN <<"#">> \o parent ELSE parent
    ELSE parent

\* the if / else-if chain on block.type, giving the new block.parent
ShiftFragment(type, parent) ==
    IF type = "heading_1"
    THEN ReplacePrefix(parent, Hashes(1) \o <<" ">>, Hashes(2) \o <<" ">>)
    ELSE IF type = "heading_2"
    THEN ReplacePrefix(parent, Hashes(2) \o <<" ">>, Hashes(3) \o <<" ">>)
    ELSE IF type = "heading_3"
    THEN ReplacePrefix(parent, Hashes(3) \o <<" ">>, Hashes(4) \o <<" ">>)
    ELSE parent

\* children are walked only below blocks that are not headings
RecursesUnlessHeading(b) ==
    b.children # <<>> /\ b.type \notin {"heading_1", "heading_2", "heading_3"}

\* `block.children && block.children.length > 0`
Recurses(b) == b.children # <<>>

RECURSIVE BlockAt(_, _)
\* the block at a path of 1-based indices: blocks[p1].children[p2]...
BlockAt(blocks, path) ==
    IF Len(path) = 1 THEN blocks[path[1]]
    ELSE BlockAt(blocks[path[1]].children, Tail(path))

\* the array a shiftHeadings activation iterates: the root list for <<>>,
\* else the children of the block at the path
ListAt(blocks, owner) ==
    IF owner = <<>> THEN blocks ELSE BlockAt(blocks, owner).children

RECURSIVE SetParent(_, _, _)
\* the tree after `block.parent = text` on the block at the path
SetParent(blocks, path, text) ==
    IF Len(path) = 1
    THEN [blocks EXCEPT ![path[1]].parent = text]
    ELSE [blocks EXCEPT ![path[1]].children = SetParent(@, Tail(path), text)]

Frame(owner, idx) == [list |-> owner, idx |-> idx]

\* the markdown texts of the blocks handed in
Fragments ==
    { Hashes(n) \o t : n \in 0..MaxHashes, t \in {<<" ", "a">>, <<"a">>} }

BlockTypes == {"heading_1", "heading_2", "heading_3", "paragraph"}

Leaves == { Block(t, f, <<>>) : t \in BlockTypes, f \in Fragments }

\* the blocks that wrap a list of children
Containers(children) ==
    { Block("toggle", <<"a">>, children),
      Block("heading_1", <<"#", " ", "a">>, children),
      Block("heading_3", <<"#", "#", "#", "a">>, children) }

RECURSIVE Trees(_)
\* block lists nested at most d containers deep
Trees(d) ==
    IF d = 0
    THEN {<<>>} \cup { <<l>> : l \in Leaves }
         \cup { <<l, Block("heading_2", <<"#", "#", " ", "a">>, <<>>)>> : l \in Leaves }
    ELSE Trees(d - 1)
         \cup UNION { { <<c>> : c \in Containers(t) } : t \in Trees(d - 1) \ {<<>>} }
         \cup { << Block("toggle", <<"a">>, t),
                   Block("heading_1", <<"#", " ", "a">>, <<>>) >> :
                t \in Trees(d - 1) \ {<<>>} }

ShiftInit ==
    /\ mdBlocks \in Trees(MaxDepth)
    /\ input = mdBlocks
    /\ stack = <<>>
    /\ visitLog = <<>>
    /\ applied = 0
    /\ once = <<>>

\* shiftHeadings(mdBlocks) is called: at most twice, the pipeline's call and
\* a second one on the same tree
ShiftCall ==
    /\ stack = <<>>
    /\ applied < 2
    /\ stack' = << Frame(<<>>, 1) >>
    /\ visitLog' = <<>>
    /\ UNCHANGED <<mdBlocks, input, applied, once>>

\* one iteration of `for (const block of blocks)` in the innermost
\* activation: the block's text is shifted by its type and, when it has
\* children, shiftHeadings(block.children) is entered
ShiftVisit ==
    /\ stack # <<>>
    /\ LET top  == stack[Len(stack)]
           list == ListAt(mdBlocks, top.list)
       IN /\ top.idx <= Len(list)
          /\ LET b    == list[top.idx]
                 path == Append(top.list, top.idx)
                 rest == [stack EXCEPT ![Len(stack)].idx = top.idx + 1]
             IN /\ mdBlocks' = SetParent(mdBlocks, path, ShiftFragment(b.type, b.parent))
                /\ visitLog' = Append(visitLog, path)
                /\ stack' = IF Recurses(b) THEN Append(rest, Frame(path, 1)) ELSE rest
    /\ UNCHANGED <<input, applied, once>>

\* the for loop of the innermost activation is over: it returns
ShiftReturn ==
    /\ stack # <<>>
    /\ LET top == stack[Len(stack)]
       IN top.idx > Len(ListAt(mdBlocks, top.list))
    /\ stack' = SubSeq(stack, 1, Len(stack) - 1)
    /\ applied' = IF Len(stack) = 1 THEN applied + 1 ELSE applied
    /\ once' = IF Len(stack) = 1 /\ applied = 0 THEN mdBlocks ELSE once
    /\ UNCHANGED <<mdBlocks, input, visitLog>>

ShiftNext == ShiftCall \/ ShiftVisit \/ ShiftReturn

InitShift == ShiftInit /\ RunIdle /\ FrontIdle /\ ImageIdle
NextShift == ShiftNext /\ UNCHANGED <<runVars, frontVars, imageVars>>
SpecShift == InitShift /\ [][NextShift]_vars

\* ------------------------------------------------------------ front matter
\* the runs a title or rich-text property may hold
Runs == {<<>>, <<"">>, <<"T">>, <<"T", "U">>}

RECURSIVE TagLists(_)
\* the lists of at most n tag names
TagLists(n) ==
    IF n = 0 THEN {<<>>}
    ELSE TagLists(n - 1)
         \cup { Append(l, t) : l \in {m \in TagLists(n - 1) : Len(m) = n - 1},
                               t \in {"t1", "t2"} }

\* the pages whose fields are resolved
FrontPages ==
    { [ id |-> id,
        properties |->
          [ title         |-> ti,
            page_id       |-> sl,
            description   |-> de,
            thumbnail_url |-> th,
            category      |-> ca,
            tags          |-> ta,
            date          |-> da,
            published     |-> TRUE ] ] :
        id \in {IdOf(1), <<"a", "-", "b", "-", "c">>},
        ti \in {AbsentTitle} \cup {TitleProp(r) : r \in Runs \ {<<>>}},
        sl \in {AbsentProp} \cup {RichText(r) : r \in {<<>>, <<"">>, <<"T">>}},
        de \in {AbsentProp, RichText(<<"">>), RichText(<<"T">>)},
        th \in {AbsentProp, RichText(<<"">>), RichText(<<"T">>)},
        ca \in {AbsentSelect, Select(Undefined), Select(Some("")), Select(Some("dev"))},
        ta \in {AbsentTags} \cup {MultiSelect(l) : l \in TagLists(MaxTags)},
        da \in {AbsentDate, DateProp(Undefined), DateProp(Some("")),
                DateProp(Some("2024-01-01"))} }

FrontInit ==
    /\ page \in FrontPages
    /\ fm = Undefined
    /\ today = "2024-01-03"

\* the part of one loop iteration that resolves the fields of the page and
\* builds the header and the filename
BuildFrontmatter ==
    /\ fm = Undefined
    /\ fm' = Some([ title        |-> Title(page),
                    pageId       |-> PageId(page),
                    description  |-> Description(page),
                    thumbnailUrl |-> ThumbnailUrl(page),
                    category     |-> Category(page),
                    tags         |-> Tags(page),
                    date         |-> Date(page, today),
                    lines        |-> FrontmatterLines(page, today),
                    frontmatter  |-> Frontmatter(page, today),
                    filename     |-> Filename(page, today) ])
    /\ UNCHANGED <<page, today>>

FrontNext == BuildFrontmatter

RunIdleButToday ==
    /\ env = <<>> /\ pc = "idle" /\ remoteFilters = TRUE /\ queryArgs = <<>>
    /\ response = <<>> /\ i = 0 /\ dir = <<>> /\ dir0 = <<>>
    /\ exitCode = <<>> /\ remoteCalls = 0 /\ log = <<>> /\ failure = <<>>

InitFront == FrontInit /\ RunIdleButToday /\ ShiftIdle /\ ImageIdle
NextFront ==
    /\ FrontNext
    /\ UNCHANGED <<env, pc, remoteFilters, queryArgs, response, i, dir, dir0,
                   exitCode, remoteCalls, log, failure>>
    /\ UNCHANGED <<shiftVars, imageVars>>
SpecFront == InitFront /\ [][NextFront]_vars

\* ------------------------------------------------------- image transformer
\* encodeURIComponent on one character
EncodeChar(c) ==
    IF c = ":" THEN "%3A"
    ELSE IF c = "/" THEN "%2F"
    ELSE c

\* encodeURIComponent(imageUrl); the argument undefined is converted to the
\* string "undefined" first
EncodeURIComponent(m) ==
    IF m = Undefined THEN "undefined"
    ELSE Concat([n \in DOMAIN m[1] |-> EncodeChar(m[1][n])])

\* the template string of proxyUrl and the returned image reference
ImageReference(encodedUrl, blockId) ==
    "![image](https://www.notion.so/image/" \o encodedUrl
       \o "?table=block&id=" \o blockId \o "&cache=v2)"

\* the custom transformer of image blocks: the source object is picked by
\* image.type; reading .url of a missing object throws a TypeError
ImageTransformer(b) ==
    LET source == IF b.image.type = "file" THEN b.image.file ELSE b.image.external
    IN IF source = Undefined
       THEN [kind |-> "threw", value |-> "TypeError", after |-> b]
       ELSE [kind  |-> "returned",
             value |-> ImageReference(EncodeURIComponent(source[1].url), b.id),
             after |-> b]

RECURSIVE Urls(_)
\* the URLs of at most n characters
Urls(n) ==
    IF n = 0 THEN {<<>>}
    ELSE Urls(n - 1)
         \cup { Append(u, c) : u \in {v \in Urls(n - 1) : Len(v) = n - 1},
                               c \in {"a", ":", "/"} }

\* a source object: missing, without url, or with a url
Sources ==
    {Undefined, Some([url |-> Undefined])}
    \cup { Some([url |-> Some(u)]) : u \in Urls(MaxUrlLen) \ {<<>>} }

ImageBlocks ==
    { [ id |-> id, image |-> [type |-> t, file |-> f, external |-> e] ] :
        id \in {"b1", "b2"}, t \in {"file", "external"},
        f \in Sources, e \in Sources }

ImageInit ==
    /\ block \in ImageBlocks
    /\ imgOut = Undefined

\* notion-to-md hands an image block to the transformer
TransformImage ==
    /\ imgOut = Undefined
    /\ imgOut' = Some(ImageTransformer(block))
    /\ UNCHANGED block

ImageNext == TransformImage

InitImage == ImageInit /\ RunIdle /\ ShiftIdle /\ FrontIdle
NextImage == ImageNext /\ UNCHANGED <<runVars, shiftVars, frontVars>>
SpecImage == InitImage /\ [][NextImage]_vars

\* ------------------------------------------------------- claims on the run
Writes == SelectSeq(log, LAMBDA e : e.step = "write")

\* the names of the files the run wrote
Written == {Writes[n].file : n \in DOMAIN Writes}

Finished == pc = "exited" /\ failure = Undefined

\* C1: when DATABASE_ID or NOTION_TOKEN is absent, the run, once it has
\* started, has ended with a non-zero exit status on the configuration
\* error, with no remote call issued, no query sent, and the output
\* directory exactly as it was found (nothing made, nothing written).
C1_MissingEnvIsFatal ==
    (pc # "start" /\ (env.DATABASE_ID = Undefined \/ env.NOTION_TOKEN = Undefined))
    => /\ pc = "exited"
       /\ ExitStatus # 0
       /\ failure = Some([stage |-> "config", k |-> 0])
       /\ remoteCalls = 0
       /\ queryArgs = Undefined
       /\ log = <<>>
       /\ dir = dir0

\* C1 witness: a run with DATABASE_ID set and NOTION_TOKEN absent has ended.
C1_Witness ==
    /\ pc = "exited"
    /\ env.DATABASE_ID = Some("set")
    /\ env.NOTION_TOKEN = Undefined
    /\ ExitStatus = 1
    /\ remoteCalls = 0

\* C2 as stated: a run that completes writes a file for each published page
\* of the query result and none for an unpublished page, whatever the result
\* handed to the loop holds.
C2_OnlyPublishedWritten ==
    Finished =>
       /\ \A k \in DOMAIN response :
             response[k].properties.published
                <=> (\E n \in DOMAIN Writes : Writes[n].k = k)
       /\ Len(Writes) = Cardinality({k \in DOMAIN response :
                                        response[k].properties.published})

\* C2 amended: a run that completes writes a file for every page of the query
\* result, published or not; the only filter is the one sent with the query
\* (published equals true), so no file comes from an unpublished page when
\* the remote applies that filter.
C2_EveryResultPageWritten ==
    Finished =>
       /\ \A k \in DOMAIN response :
             \E n \in DOMAIN Writes :
                /\ Writes[n].k = k
                /\ Writes[n].file \in DOMAIN dir[1]
       /\ Len(Writes) = Len(response)
       /\ queryArgs[1].filter =
             [property |-> "published", checkbox |-> [equals |-> TRUE]]
       /\ remoteFilters =>
             \A n \in DOMAIN Writes : response[Writes[n].k].properties.published

\* C2 witness: a completed run whose query result held two published pages
\* and an unpublished one, and which wrote a file for the unpublished one.
C2_Witness ==
    /\ Finished
    /\ Len(response) = 3
    /\ Cardinality({k \in DOMAIN response : response[k].properties.published}) = 2
    /\ \E n \in DOMAIN Writes : ~response[Writes[n].k].properties.published

\* the (date, slug) pairs of the pages of the query result
DateSlugPairs ==
    { << response[k].properties.date.start[1],
         IF response[k].properties.page_id.kind = "absent"
         THEN <<"id", k>> ELSE <<"slug", response[k].properties.page_id.rich_text[1]>> >> :
        k \in DOMAIN response }

\* C3 as stated: after a run that completes, the number of distinct files the
\* run left equals the number of pages of the query result.
C3_OneFilePerRecord ==
    Finished => Cardinality(Written) = Len(response)

\* C3 amended: after a run that completes, the number of distinct files the
\* run left equals the number of distinct (date, slug) pairs among the pages
\* of the query result: pages that share date and slug share one file, the
\* later overwriting the earlier, so the count is at most the number of pages
\* and equals it exactly when no two pages share date and slug.
C3_OneFilePerDateSlug ==
    Finished =>
       /\ Written \subseteq DOMAIN dir[1]
       /\ Cardinality(Written) = Cardinality(DateSlugPairs)
       /\ Cardinality(Written) <= Len(response)
       /\ (Cardinality(Written) = Len(response)) <=>
             (\A a, b \in DOMAIN response :
                 (a # b) =>
                    \/ response[a].properties.date # response[b].properties.date
                    \/ response[a].properties.page_id.kind = "absent"
                    \/ response[a].properties.page_id # response[b].properties.page_id)

\* C3 witness: a completed run over two pages with the same date and the same
\* slug, which left one file holding the later page's content.
C3_Witness ==
    /\ Finished
    /\ Len(response) = 2
    /\ response[1].properties.date = response[2].properties.date
    /\ response[1].properties.page_id = RichText(<<"s1">>)
    /\ response[2].properties.page_id = RichText(<<"s1">>)
    /\ Cardinality(Written) = 1
    /\ \A f \in Written : dir[1][f] = FileContent(response[2], today)

RECURSIVE DirAfter(_)
\* the files of the directory once pages 1..n of the result were written
DirAfter(n) ==
    IF n = 0 THEN (IF dir0 = Undefined THEN <<>> ELSE dir0[1])
    ELSE (Writes[n].file :> FileContent(response[n], today)) @@ DirAfter(n - 1)

RecordStages == {"fetch", "convert", "write"}

\* C4: a run that has ended after a failure (of the query, or of the body
\* fetch, conversion or file write of page k) has a non-zero exit status, took
\* no step for a page after k, wrote no file for page k or a later page, and
\* left the directory as the writes of pages 1..k-1 made it; a run that has
\* ended without failure has exit status 0 and wrote every page.
C4_FailureEndsRun ==
    pc = "exited" =>
       IF failure = Undefined
       THEN /\ ExitStatus = 0
            /\ Len(Writes) = Len(response)
            /\ dir = Some(DirAfter(Len(response)))
       ELSE LET k == failure[1].k IN
            /\ ExitStatus # 0
            /\ \A n \in DOMAIN log : log[n].k <= k
            /\ \A n \in DOMAIN Writes : Writes[n].k < k
            /\ failure[1].stage \in RecordStages =>
                  /\ k \in DOMAIN response
                  /\ Len(Writes) = k - 1
                  /\ dir = Some(DirAfter(k - 1))
            /\ failure[1].stage \in {"config", "query", "mkdir"} =>
                  /\ k = 0
                  /\ dir = dir0

\* C4 witness: the file write of page 2 failed after page 1 was written; the
\* run ended with status 1 and page 1's file is on disk.
C4_Witness ==
    /\ pc = "exited"
    /\ failure = Some([stage |-> "write", k |-> 2])
    /\ ExitStatus = 1
    /\ Len(Writes) = 1
    /\ dir[1][Writes[1].file] = FileContent(response[1], today)

Steps == <<"fetch", "fetched", "convert", "write">>

\* the steps taken on pages, in order
RecordLog == SelectSeq(log, LAMBDA e : e.k > 0)

\* C5: the steps taken on pages are, in order, fetch, fetched, convert, write
\* of page 1, then of page 2, and so on: the body fetch of page k+1 comes
\* right after the file write of page k, and the n-th file written is the
\* file of the n-th page of the query result.
C5_OneRecordAtATime ==
    /\ \A n \in DOMAIN RecordLog :
          /\ RecordLog[n].k = ((n - 1) \div Len(Steps)) + 1
          /\ RecordLog[n].step = Steps[((n - 1) % Len(Steps)) + 1]
    /\ \A n \in DOMAIN Writes :
          /\ Writes[n].k = n
          /\ Writes[n].file = Filename(response[n], today)
    /\ \A n \in DOMAIN log : log[n].k = 0 => n <= 2

\* C5 witness: the body fetch of page 3 has begun, after the writes of pages
\* 1 and 2.
C5_Witness ==
    /\ pc = "awaitFetch"
    /\ i = 3
    /\ Len(Writes) = 2
    /\ log[Len(log)] = Entry("fetch", 3, "")

\* ----------------------------------------------- claims on shiftHeadings
RECURSIVE Paths(_)
\* the paths of all blocks of a tree
Paths(blocks) ==
    UNION { {<<n>>} \cup { <<n>> \o q : q \in Paths(blocks[n].children) } :
            n \in DOMAIN blocks }

Headings == {"heading_1", "heading_2", "heading_3"}

\* the heading marker of a heading type: #, ## or ###
Marker(type) ==
    IF type = "heading_1" THEN Hashes(1)
    ELSE IF type = "heading_2" THEN Hashes(2)
    ELSE Hashes(3)

\* a heading whose text starts with its marker and a space
Matching(b) ==
    b.type \in Headings /\ StartsWith(b.parent, Marker(b.type) \o <<" ">>)

\* C6 as stated: after one application, every heading_1/2/3 block whose text
\* starts with the marker of its type (#, ##, ###) has gained exactly one
\* leading #; every other block's text is unchanged; types and children
\* lists are unchanged.
C6_ShiftsOnMarker ==
    applied >= 1 =>
       /\ Paths(once) = Paths(input)
       /\ \A p \in Paths(input) :
             LET a == BlockAt(input, p)
                 b == BlockAt(once, p)
             IN /\ b.type = a.type
                /\ Len(b.children) = Len(a.children)
                /\ b.parent =
                      IF a.type \in Headings /\ StartsWith(a.parent, Marker(a.type))
                      THEN <<"#">> \o a.parent ELSE a.parent

\* C6 amended: after one application, every heading_1/2/3 block whose text
\* starts with the marker of its type followed by a space ("# ", "## ",
\* "### ") has gained exactly one leading # and is otherwise the same; every
\* block of another type, and every heading whose text does not start with
\* marker and space, keeps its text; types, children lists and order are
\* unchanged.
C6_ShiftsOnMarkerAndSpace ==
    applied >= 1 =>
       /\ Paths(once) = Paths(input)
       /\ \A p \in Paths(input) :
             LET a == BlockAt(input, p)
                 b == BlockAt(once, p)
             IN /\ b.type = a.type
                /\ Len(b.children) = Len(a.children)
                /\ b.parent = IF Matching(a) THEN <<"#">> \o a.parent ELSE a.parent

\* C6 witness: one application has turned a heading_3 "### a" into "#### a"
\* and left a heading_1 "#a" as it was.
C6_Witness ==
    /\ applied = 1
    /\ \E p \in Paths(input) :
          /\ BlockAt(input, p) = Block("heading_3", <<"#", "#", "#", " ", "a">>, <<>>)
          /\ BlockAt(once, p).parent = <<"#", "#", "#", "#", " ", "a">>
    /\ \E p \in Paths(input) :
          /\ BlockAt(input, p).type = "heading_3"
          /\ BlockAt(input, p).parent = <<"#", "#", "#", "a">>
          /\ BlockAt(once, p).parent = <<"#", "#", "#", "a">>

\* C7 as stated: a second application to a tree that held a matching heading
\* demotes that heading again (its text gains a second #), so twice differs
\* from once; only on trees without a matching heading does a second
\* application change nothing.
C7_SecondApplicationDemotesAgain ==
    applied = 2 =>
       IF \E p \in Paths(input) : Matching(BlockAt(input, p))
       THEN /\ mdBlocks # once
            /\ \A p \in Paths(input) :
                  Matching(BlockAt(input, p)) =>
                     BlockAt(mdBlocks, p).parent
                        = <<"#", "#">> \o BlockAt(input, p).parent
       ELSE mdBlocks = once

\* C7 amended: shiftHeadings is idempotent on every tree: a second
\* application changes nothing, because a demoted heading keeps its type and
\* its text no longer starts with that type's marker and a space; a matching
\* heading has gained one # after two applications, as after one.
C7_Idempotent ==
    applied = 2 =>
       /\ mdBlocks = once
       /\ \A p \in Paths(input) :
             Matching(BlockAt(input, p)) =>
                /\ BlockAt(mdBlocks, p).parent = <<"#">> \o BlockAt(input, p).parent
                /\ ~Matching(BlockAt(once, p))

\* C7 witness: two applications to a tree holding a matching heading, the
\* first of which changed the tree and the second of which did not.
C7_Witness ==
    /\ applied = 2
    /\ \E p \in Paths(input) : Matching(BlockAt(input, p))
    /\ once # input
    /\ mdBlocks = once

\* C8: an application that has returned visited every block of the tree
\* exactly once (no path twice at any moment, every path once at the end),
\* below headings as below other blocks, and every matching heading nested
\* inside other blocks is demoted one level, as a root-level one is.
C8_VisitsEveryBlockOnce ==
    /\ \A m, n \in DOMAIN visitLog : visitLog[m] = visitLog[n] => m = n
    /\ Range(visitLog) \subseteq Paths(input)
    /\ (stack = <<>> /\ applied >= 1) =>
          /\ Range(visitLog) = Paths(input)
          /\ Len(visitLog) = Cardinality(Paths(input))
          /\ \A p \in Paths(input) :
                Matching(BlockAt(input, p)) =>
                   BlockAt(once, p).parent = <<"#">> \o BlockAt(input, p).parent

\* C8 witness: the first application has returned from a tree with a matching
\* heading three levels deep, below a heading block and a toggle, and that
\* heading is demoted one level.
C8_Witness ==
    /\ stack = <<>>
    /\ applied = 1
    /\ \E p \in Paths(input) :
          /\ Len(p) = 3
          /\ Matching(BlockAt(input, p))
          /\ BlockAt(input, <<p[1]>>).type \in Headings
          /\ BlockAt(input, <<p[1], p[2]>>).type = "toggle"
          /\ BlockAt(once, p).parent = <<"#">> \o BlockAt(input, p).parent

\* ------------------------------------------------ claims on front matter
\* the first run of a title or rich-text property, when there is one
OwnText(prop) ==
    IF prop.kind = "absent" THEN Undefined
    ELSE IF prop.kind = "title"
         THEN (IF prop.title = <<>> THEN Undefined ELSE Some(prop.title[1]))
         ELSE (IF prop.rich_text = <<>> THEN Undefined ELSE Some(prop.rich_text[1]))

OwnCategory == IF page.properties.category.kind = "absent" THEN Undefined
               ELSE page.properties.category.select

OwnDate == IF page.properties.date.kind = "absent" THEN Undefined
           ELSE page.properties.date.start

\* the page identifier with its separators stripped
IdStripped == IF page.id = IdOf(1) THEN "p1x" ELSE "abc"

\* the header lines that do not depend on the thumbnail
HeaderAgrees(f) ==
    /\ f.lines[1] = "---"
    /\ f.lines[2] = "title: \"" \o f.title \o "\""
    /\ f.lines[3] = "date: " \o f.date
    /\ f.lines[4] = "categories: [\"" \o f.category \o "\"]"
    /\ f.lines[5] = IF f.tags = <<>> THEN "tags: [\"\"]"
                    ELSE IF Len(f.tags) = 1 THEN "tags: [\"" \o f.tags[1] \o "\"]"
                    ELSE "tags: [\"" \o f.tags[1] \o "\", \"" \o
                         Join(Tail(f.tags), "\", \"") \o "\"]"
    /\ f.lines[6] = "description: \"" \o f.description \o "\""
    /\ f.lines[7] = "permalink: /posts/" \o f.pageId
    /\ f.lines[8] = "math: true"
    /\ f.lines[Len(f.lines) - 2] = "---"
    /\ f.filename = f.date \o "-" \o f.pageId \o ".md"

\* C9 as stated: every field takes the page's own value when the property is
\* present and the default only when it is absent (title "Untitled", slug the
\* stripped identifier, description empty, no image block, category "blog",
\* tags one empty string, date today); permalink and filename share the slug.
C9_DefaultsExactlyWhenAbsent ==
    fm # Undefined =>
       LET f  == fm[1]
           pr == page.properties
           Or(m, d) == IF m = Undefined THEN d ELSE m[1]
       IN /\ f.title = Or(OwnText(pr.title), "Untitled")
          /\ f.pageId = Or(OwnText(pr.page_id), IdStripped)
          /\ f.description = Or(OwnText(pr.description), "")
          /\ ("image:" \in Range(f.lines)) <=> (OwnText(pr.thumbnail_url) # Undefined)
          /\ f.category = Or(OwnCategory, "blog")
          /\ f.tags = IF pr.tags.kind = "absent" THEN <<>> ELSE pr.tags.multi_select
          /\ f.date = Or(OwnDate, today)
          /\ HeaderAgrees(f)

\* C9 amended: field resolution never fails; each of title, slug,
\* description, thumbnail, category and date takes the page's own value when
\* it is present and not the empty string, and the default otherwise (so an
\* empty own value takes the default too: title "Untitled", slug the stripped
\* identifier, description empty, no image block, category "blog", date
\* today); tags takes the page's own list when the property is present, else
\* the empty list, an empty list rendering as a list of one empty string;
\* permalink and filename share the slug.
C9_DefaultsWhenAbsentOrEmpty ==
    fm # Undefined =>
       LET f  == fm[1]
           pr == page.properties
           Or(m, d) == IF m = Undefined THEN d ELSE IF m[1] = "" THEN d ELSE m[1]
       IN /\ f.title = Or(OwnText(pr.title), "Untitled")
          /\ f.pageId = Or(OwnText(pr.page_id), IdStripped)
          /\ f.description = Or(OwnText(pr.description), "")
          /\ ("image:" \in Range(f.lines))
                <=> (OwnText(pr.thumbnail_url) \notin {Undefined, Some("")})
          /\ ("image:" \in Range(f.lines)) =>
                /\ Len(f.lines) = 14
                /\ f.lines[9] = "image:"
                /\ f.lines[10] = "  path: \"" \o OwnText(pr.thumbnail_url)[1] \o "\""
          /\ ("image:" \notin Range(f.lines)) => Len(f.lines) = 11
          /\ f.category = Or(OwnCategory, "blog")
          /\ f.tags = IF pr.tags.kind = "absent" THEN <<>> ELSE pr.tags.multi_select
          /\ f.date = Or(OwnDate, today)
          /\ HeaderAgrees(f)

\* C9 witness: a page with an empty title run, no slug, no thumbnail and no
\* tags was resolved to "Untitled", its stripped identifier, a header
\* without image block and tags [""].
C9_Witness ==
    /\ fm # Undefined
    /\ page.properties.title = TitleProp(<<"">>)
    /\ page.properties.page_id = AbsentProp
    /\ page.properties.thumbnail_url = AbsentProp
    /\ page.properties.tags = AbsentTags
    /\ page.id = <<"a", "-", "b", "-", "c">>
    /\ fm[1].title = "Untitled"
    /\ fm[1].lines[7] = "permalink: /posts/abc"
    /\ fm[1].lines[5] = "tags: [\"\"]"
    /\ "image:" \notin Range(fm[1].lines)

\* ------------------------------------------- claim on the image transformer
HasUrl(src) == src # Undefined /\ src[1].url # Undefined

\* the source object image.type names
NamedSource == IF block.image.type = "file" THEN block.image.file
               ELSE block.image.external

\* C10: for an image block, when a source URL is present in the shape the
\* block's type names (file or external) the transformer returns the
\* proxy-URL reference built from that URL and the block's identifier and
\* leaves the block as it was; when neither shape carries a URL it raises an
\* error instead of returning a reference.
C10_ImageErrorPolicy ==
    imgOut # Undefined =>
       /\ HasUrl(NamedSource) =>
             /\ imgOut[1].kind = "returned"
             /\ imgOut[1].after = block
             /\ imgOut[1].value =
                   ImageReference(EncodeURIComponent(NamedSource[1].url), block.id)
       /\ (~HasUrl(block.image.file) /\ ~HasUrl(block.image.external)) =>
             imgOut[1].kind = "threw"
====
